---- MODULE Spec2Model ----
(***************************************************************************)
(* A model of the TOY scene-file decoder (src/src/importer.rs) and of the  *)
(* reference layer over a decoded Project (src/src/types.rs).              *)
(*                                                                         *)
(* A byte is an integer in 0..255 and a cursor (ToyReader.buf) is the      *)
(* sequence of the bytes that remain.  A u32 is kept as its two 16-bit     *)
(* halves [hi, lo], because TLC's integers are 32-bit signed and cannot    *)
(* hold 2^32 - 1; an f32 is kept as the u32 bit pattern f32::from_bits     *)
(* reinterprets.  A String is kept as its (validated) UTF-8 bytes.         *)
(***************************************************************************)
EXTENDS Integers, Sequences, FiniteSets, TLC

VARIABLES
    data,       \* the buffer handed to load / the bytes the cursor started with
    buf,        \* ToyReader.buf of the outer cursor: the bytes that remain
    pc,         \* where the program is
    err,        \* the error a failed call returned ("" when none)
    meshes,     \* read_all's local `meshes`, then Project.meshes
    entities,   \* read_all's local `entities`, then Project.entities
    scenes,     \* read_all's local `scenes`, then Project.scenes
    locals,     \* read_mesh's locals between its parts
    frame,      \* history: what the last step read, and from which cursor
    src,        \* ghost: the description `data` was encoded from
    query       \* the last reference-layer call and its outcome

vars == <<data, buf, pc, err, meshes, entities, scenes, locals, frame, src, query>>

----------------------------------------------------------------------------
(* Bytes, little-endian integers, tags                                      *)

Byte == 0..255

\* const SCENE_VERSION: u8 = 2
SCENE_VERSION == 2

\* let wide_indices = num_vertices >= 256
WideThreshold == 256

Drop(s, n) == SubSeq(s, n + 1, Len(s))
Take(s, n) == SubSeq(s, 1, n)

\* slice.split_at(n): the first n bytes and the rest
split_at(s, n) == <<Take(s, n), Drop(s, n)>>

\* u16::from_le_bytes
u16_from_le_bytes(b) == b[1] + 256 * b[2]

\* u32::from_le_bytes, as the two 16-bit halves of the value
u32_from_le_bytes(b) == [hi |-> b[3] + 256 * b[4], lo |-> b[1] + 256 * b[2]]

\* A u32 whose value fits TLC's integers
U32Small(w) == w.hi < 32768
U32Value(w) == w.hi * 65536 + w.lo
U32(n) == [hi |-> n \div 65536, lo |-> n % 65536]

\* `x as usize <= n` for a u32 x and a length n (a length is below 2^31)
U32Leq(w, n) == U32Small(w) /\ U32Value(w) <= n

\* The number of iterations of `for _ in 0..count` that can matter when every
\* iteration reads at least one byte of b: the loop fails at the latest in
\* iteration Len(b) + 1.
LoopCount(w, b) == IF U32Leq(w, Len(b)) THEN U32Value(w) ELSE Len(b) + 1

TagTOY  == <<84, 79, 89>>
TagSCNE == <<83, 67, 78, 69>>
TagMESH == <<77, 69, 83, 72>>
TagENTY == <<69, 78, 84, 89>>
TagMDTA == <<77, 68, 84, 65>>

----------------------------------------------------------------------------
(* Results: ToyResult<T> together with the cursor the call leaves behind.   *)
(* st is "ok" (Ok(val)), "err" (Err, of kind err) or "panic" (the call      *)
(* unwound).  The error kinds name the failure messages of the source:      *)
(*   BadMagic                "Expected magic string"                        *)
(*   VersionMismatch         "Version mismatch (..)"                        *)
(*   UnexpectedEndOfInput    "Unexpected EOF while ..."                     *)
(*   InvalidSectionLength    "Invalid section size for '..'"                *)
(*   UnknownSectionTag       "Unexpected tag '..' encountered"              *)
(*   InvalidUtf8             std::str::Utf8Error                            *)
(*   ColorLayerSizeMismatch  "Color layer '..' different size to ..."       *)
(*   MissingExpectedTag      "Expected tag '..'"                            *)

Ok(v, b)  == [st |-> "ok",    val |-> v,    err |-> "", buf |-> b]
Err(e, b) == [st |-> "err",   val |-> <<>>, err |-> e,  buf |-> b]
Panic(b)  == [st |-> "panic", val |-> <<>>, err |-> "", buf |-> b]

IsOk(r) == r.st = "ok"

\* `r?` followed by the rest of the function: a failure is returned at once,
\* with the cursor as the failed call left it; on success K continues with
\* the result (its value and its cursor).
Then(r, K(_)) == IF IsOk(r) THEN K(r) ELSE [st |-> r.st, val |-> <<>>, err |-> r.err, buf |-> r.buf]

----------------------------------------------------------------------------
(* The byte cursor, importer.rs 148-223                                     *)

expect_tag(b, tag) ==
    IF ~(Len(b) >= 4) THEN Err("UnexpectedEndOfInput", b)
    ELSE IF ~(Take(b, 4) = tag) THEN Err("MissingExpectedTag", b)
    ELSE Ok(<<>>, Drop(b, 4))

read_tag(b) ==
    IF ~(Len(b) >= 4) THEN Err("UnexpectedEndOfInput", b)
    ELSE Ok(split_at(b, 4)[1], split_at(b, 4)[2])

read_u8(b) ==
    IF ~(Len(b) >= 1) THEN Err("UnexpectedEndOfInput", b)
    ELSE Ok(b[1], Drop(b, 1))

read_u16(b) ==
    IF ~(Len(b) >= 2) THEN Err("UnexpectedEndOfInput", b)
    ELSE Ok(u16_from_le_bytes(split_at(b, 2)[1]), split_at(b, 2)[2])

\* A read that takes what is left before it checks the width
read_u32_Eager(b) ==
    IF ~(Len(b) >= 4) THEN Err("UnexpectedEndOfInput", <<>>)
    ELSE Ok(u32_from_le_bytes(split_at(b, 4)[1]), split_at(b, 4)[2])

read_u32(b) ==
    IF ~(Len(b) >= 4) THEN Err("UnexpectedEndOfInput", b)
    ELSE Ok(u32_from_le_bytes(split_at(b, 4)[1]), split_at(b, 4)[2])

\* f32::from_bits(self.read_u32()?)
read_f32(b) == Then(read_u32(b), LAMBDA bits : Ok(bits.val, bits.buf))

\* Vec3::new(x, y, z), the arguments read left to right
read_vec3(b) ==
    Then(read_f32(b), LAMBDA x :
    Then(read_f32(x.buf), LAMBDA y :
    Then(read_f32(y.buf), LAMBDA z :
    Ok(<<x.val, y.val, z.val>>, z.buf))))

\* Vec4::new(x, y, z, w)
read_vec4(b) ==
    Then(read_f32(b), LAMBDA x :
    Then(read_f32(x.buf), LAMBDA y :
    Then(read_f32(y.buf), LAMBDA z :
    Then(read_f32(z.buf), LAMBDA w :
    Ok(<<x.val, y.val, z.val, w.val>>, w.buf)))))

\* Quat::from_raw(x, y, z, w)
read_quat(b) ==
    Then(read_f32(b), LAMBDA x :
    Then(read_f32(x.buf), LAMBDA y :
    Then(read_f32(y.buf), LAMBDA z :
    Then(read_f32(z.buf), LAMBDA w :
    Ok(<<x.val, y.val, z.val, w.val>>, w.buf)))))

Cont(x) == x \in 128..191

\* std::str::from_utf8: whether the bytes are well-formed UTF-8
RECURSIVE ValidUtf8(_)
ValidUtf8(s) ==
    IF Len(s) = 0 THEN TRUE
    ELSE IF s[1] < 128 THEN ValidUtf8(Drop(s, 1))
    ELSE IF s[1] \in 194..223
         THEN Len(s) >= 2 /\ Cont(s[2]) /\ ValidUtf8(Drop(s, 2))
    ELSE IF s[1] \in 224..239
         THEN /\ Len(s) >= 3
              /\ s[2] \in (IF s[1] = 224 THEN 160..191
                           ELSE IF s[1] = 237 THEN 128..159 ELSE 128..191)
              /\ Cont(s[3])
              /\ ValidUtf8(Drop(s, 3))
    ELSE IF s[1] \in 240..244
         THEN /\ Len(s) >= 4
              /\ s[2] \in (IF s[1] = 240 THEN 144..191
                           ELSE IF s[1] = 244 THEN 128..143 ELSE 128..191)
              /\ Cont(s[3])
              /\ Cont(s[4])
              /\ ValidUtf8(Drop(s, 4))
    ELSE FALSE

\* lines 216-222, with the length byte read: the cursor is b
read_string_body(b, length) ==
    IF ~(Len(b) >= length) THEN Err("UnexpectedEndOfInput", b)
    ELSE IF ValidUtf8(split_at(b, length)[1])
         THEN Ok(split_at(b, length)[1], split_at(b, length)[2])
         ELSE Err("InvalidUtf8", split_at(b, length)[2])

read_string(b) ==
    Then(read_u8(b), LAMBDA length : read_string_body(length.buf, length.val))

----------------------------------------------------------------------------
(* The loops `for _ in 0..n { v.push(self.read_X()?) }` of the decoders:     *)
(* n iterations are the first n / 2 and then the rest, in the same order,   *)
(* so that a long loop nests no deeper than log n.                          *)

RECURSIVE read_vec3s(_, _, _)
read_vec3s(b, n, acc) ==
    IF n = 0 THEN Ok(acc, b)
    ELSE IF n = 1 THEN Then(read_vec3(b), LAMBDA r : Ok(Append(acc, r.val), r.buf))
    ELSE Then(read_vec3s(b, n \div 2, acc), LAMBDA h :
              read_vec3s(h.buf, n - n \div 2, h.val))

RECURSIVE read_vec4s(_, _, _)
read_vec4s(b, n, acc) ==
    IF n = 0 THEN Ok(acc, b)
    ELSE IF n = 1 THEN Then(read_vec4(b), LAMBDA r : Ok(Append(acc, r.val), r.buf))
    ELSE Then(read_vec4s(b, n \div 2, acc), LAMBDA h :
              read_vec4s(h.buf, n - n \div 2, h.val))

RECURSIVE read_u8s(_, _, _)
read_u8s(b, n, acc) ==
    IF n = 0 THEN Ok(acc, b)
    ELSE IF n = 1 THEN Then(read_u8(b), LAMBDA r : Ok(Append(acc, r.val), r.buf))
    ELSE Then(read_u8s(b, n \div 2, acc), LAMBDA h :
              read_u8s(h.buf, n - n \div 2, h.val))

RECURSIVE read_u16s(_, _, _)
read_u16s(b, n, acc) ==
    IF n = 0 THEN Ok(acc, b)
    ELSE IF n = 1 THEN Then(read_u16(b), LAMBDA r : Ok(Append(acc, r.val), r.buf))
    ELSE Then(read_u16s(b, n \div 2, acc), LAMBDA h :
              read_u16s(h.buf, n - n \div 2, h.val))

RECURSIVE read_u32s(_, _, _)
read_u32s(b, n, acc) ==
    IF n = 0 THEN Ok(acc, b)
    ELSE IF n = 1 THEN Then(read_u32(b), LAMBDA r : Ok(Append(acc, r.val), r.buf))
    ELSE Then(read_u32s(b, n \div 2, acc), LAMBDA h :
              read_u32s(h.buf, n - n \div 2, h.val))

----------------------------------------------------------------------------
(* read_mesh, importer.rs 69-122, in its three parts                        *)

\* lines 70-74: the vertex count and the positions
read_mesh_vertices(b) ==
    Then(read_u16(b), LAMBDA n :
    Then(read_vec3s(n.buf, n.val, <<>>), LAMBDA v :
    Ok([num_vertices |-> n.val, vertices |-> v.val], v.buf)))

\* The threshold off by one
wide_indices_Above(num_vertices) == num_vertices > WideThreshold

\* line 76
wide_indices(num_vertices) == num_vertices >= WideThreshold

\* lines 82-95: the indices, MeshIndices::U16 (wide) or MeshIndices::U8
read_indices(b, wide, num_indices) ==
    IF wide
    THEN Then(read_u16s(b, num_indices, <<>>), LAMBDA i :
              Ok([wide |-> TRUE, vals |-> i.val], i.buf))
    ELSE Then(read_u8s(b, num_indices, <<>>), LAMBDA i :
              Ok([wide |-> FALSE, vals |-> i.val], i.buf))

\* Two indices a triangle
read_mesh_indices_Pairs(b, num_vertices) ==
    Then(read_u16(b), LAMBDA num_triangles :
    read_indices(num_triangles.buf, wide_indices(num_vertices), num_triangles.val * 2))

\* lines 76-95: the triangle count and the indices
read_mesh_indices(b, num_vertices) ==
    Then(read_u16(b), LAMBDA num_triangles :
    read_indices(num_triangles.buf, wide_indices(num_vertices), num_triangles.val * 3))

\* A layer may hold more points than the mesh has vertices
layer_size_ok_AtLeast(num_points, num_vertices) == num_points >= num_vertices

\* line 104
layer_size_ok(num_points, num_vertices) == num_points = num_vertices

\* lines 100-114: one color layer
read_color_layer(b, num_vertices) ==
    Then(expect_tag(b, TagMDTA), LAMBDA g :
    Then(read_string(g.buf), LAMBDA layer_name :
    Then(read_u16(layer_name.buf), LAMBDA num_points :
    IF ~layer_size_ok(num_points.val, num_vertices)
    THEN Err("ColorLayerSizeMismatch", num_points.buf)
    ELSE Then(read_vec4s(num_points.buf, num_points.val, <<>>), LAMBDA layer_data :
         Ok([name |-> layer_name.val, data |-> layer_data.val], layer_data.buf)))))

RECURSIVE read_color_layers(_, _, _, _)
read_color_layers(b, n, num_vertices, acc) ==
    IF n = 0 THEN Ok(acc, b)
    ELSE IF n = 1 THEN Then(read_color_layer(b, num_vertices), LAMBDA r :
                            Ok(Append(acc, r.val), r.buf))
    ELSE Then(read_color_layers(b, n \div 2, num_vertices, acc), LAMBDA h :
              read_color_layers(h.buf, n - n \div 2, num_vertices, h.val))

\* lines 97-115: the layer count and the color layers
read_mesh_colors(b, num_vertices) ==
    Then(read_u8(b), LAMBDA num_color_layers :
    read_color_layers(num_color_layers.buf, num_color_layers.val, num_vertices, <<>>))

read_mesh(b) ==
    Then(read_mesh_vertices(b), LAMBDA v :
    Then(read_mesh_indices(v.buf, v.val.num_vertices), LAMBDA i :
    Then(read_mesh_colors(i.buf, v.val.num_vertices), LAMBDA c :
    Ok([positions |-> v.val.vertices, indices |-> i.val, color_data |-> c.val],
       c.buf))))

----------------------------------------------------------------------------
(* read_entity, read_scene                                                  *)

\* mesh_id read before scale
read_entity_Reordered(b) ==
    Then(read_string(b), LAMBDA name :
    Then(read_vec3(name.buf), LAMBDA position :
    Then(read_quat(position.buf), LAMBDA rotation :
    Then(read_u16(rotation.buf), LAMBDA mesh_id :
    Then(read_vec3(mesh_id.buf), LAMBDA scale :
    Ok([name |-> name.val, position |-> position.val, rotation |-> rotation.val,
        scale |-> scale.val, mesh_id |-> mesh_id.val], scale.buf))))))

read_entity(b) ==
    Then(read_string(b), LAMBDA name :
    Then(read_vec3(name.buf), LAMBDA position :
    Then(read_quat(position.buf), LAMBDA rotation :
    Then(read_vec3(rotation.buf), LAMBDA scale :
    Then(read_u16(scale.buf), LAMBDA mesh_id :
    Ok([name |-> name.val, position |-> position.val, rotation |-> rotation.val,
        scale |-> scale.val, mesh_id |-> mesh_id.val], mesh_id.buf))))))

\* Vec::with_capacity(num_entities) is taken to succeed: the model's inputs
\* declare no count whose reservation could fail.
read_scene(b) ==
    Then(read_string(b), LAMBDA name :
    Then(read_u32(name.buf), LAMBDA num_entities :
    Then(read_u32s(num_entities.buf,
                   LoopCount(num_entities.val, num_entities.buf), <<>>), LAMBDA e :
    Ok([name |-> name.val, entities |-> e.val], e.buf))))

----------------------------------------------------------------------------
(* read_magic, read_section                                                 *)

\* line 49: whether the cursor starts with the magic.  &self.buf[..3] panics
\* (slice index out of range) on a buffer shorter than 3 bytes.
magic_check(b) ==
    IF Len(b) < 3 THEN Panic(b)
    ELSE IF ~(Take(b, 3) = TagTOY) THEN Err("BadMagic", b)
    ELSE Ok(<<>>, Drop(b, 3))

read_magic(b) ==
    Then(magic_check(b), LAMBDA m :
    Then(read_u8(m.buf), LAMBDA version :
    IF ~(version.val = SCENE_VERSION) THEN Err("VersionMismatch", version.buf)
    ELSE Ok(<<>>, version.buf)))

\* A section may not end where the buffer ends
section_size_ok_Strict(section_size, b) ==
    U32Small(section_size) /\ U32Value(section_size) < Len(b)

\* line 61
section_size_ok(section_size, b) == U32Leq(section_size, Len(b))

read_section(b) ==
    Then(read_tag(b), LAMBDA tag :
    Then(read_u32(tag.buf), LAMBDA section_size :
    IF ~section_size_ok(section_size.val, section_size.buf)
    THEN Err("InvalidSectionLength", section_size.buf)
    ELSE Ok([tag |-> tag.val,
             section |-> split_at(section_size.buf, U32Value(section_size.val))[1]],
            split_at(section_size.buf, U32Value(section_size.val))[2])))

----------------------------------------------------------------------------
(* read_all's match on the tag, importer.rs 33-38: the decoder's result r   *)
(* and the three lists after the push.                                      *)

Pushed(r, list) == IF IsOk(r) THEN Append(list, r.val) ELSE list

\* Every result pushed at the front of its list
dispatch_Front(tag, section, ms, es, ss) ==
    IF tag = TagSCNE THEN
        [r |-> read_scene(section), meshes |-> ms, entities |-> es,
         scenes |-> IF IsOk(read_scene(section))
                    THEN <<read_scene(section).val>> \o ss ELSE ss]
    ELSE IF tag = TagMESH THEN
        [r |-> read_mesh(section),
         meshes |-> IF IsOk(read_mesh(section))
                    THEN <<read_mesh(section).val>> \o ms ELSE ms,
         entities |-> es, scenes |-> ss]
    ELSE IF tag = TagENTY THEN
        [r |-> read_entity(section), meshes |-> ms,
         entities |-> IF IsOk(read_entity(section))
                      THEN <<read_entity(section).val>> \o es ELSE es,
         scenes |-> ss]
    ELSE [r |-> Err("UnknownSectionTag", section),
          meshes |-> ms, entities |-> es, scenes |-> ss]

dispatch(tag, section, ms, es, ss) ==
    IF tag = TagSCNE THEN
        [r |-> read_scene(section), meshes |-> ms, entities |-> es,
         scenes |-> Pushed(read_scene(section), ss)]
    ELSE IF tag = TagMESH THEN
        [r |-> read_mesh(section), meshes |-> Pushed(read_mesh(section), ms),
         entities |-> es, scenes |-> ss]
    ELSE IF tag = TagENTY THEN
        [r |-> read_entity(section), meshes |-> ms,
         entities |-> Pushed(read_entity(section), es), scenes |-> ss]
    ELSE [r |-> Err("UnknownSectionTag", section),
          meshes |-> ms, entities |-> es, scenes |-> ss]

----------------------------------------------------------------------------
(* The reference layer, types.rs 145-187                                    *)

\* SceneRef::entities(), drained by its consumer: the EntityRefs it yields,
\* or the panic that ends it.  `id as usize - 1` on id = 0 panics where the
\* build checks overflow ("debug") and wraps to usize::MAX elsewhere
\* ("release"), where the index is then out of bounds.
RECURSIVE SceneRef_entities(_, _, _, _)
SceneRef_entities(file_entities, ids, bld, acc) ==
    IF ids = <<>> THEN [st |-> "ok", val |-> acc, why |-> ""]
    ELSE IF Head(ids) = U32(0) THEN
        [st |-> "panic", val |-> acc,
         why |-> IF bld = "debug" THEN "attempt to subtract with overflow"
                 ELSE "index out of bounds"]
    ELSE IF ~U32Leq(Head(ids), Len(file_entities)) THEN
        [st |-> "panic", val |-> acc, why |-> "index out of bounds"]
    ELSE SceneRef_entities(file_entities, Tail(ids), bld,
                           Append(acc, file_entities[(U32Value(Head(ids)) - 1) + 1]))

\* The index taken without the - 1
EntityRef_mesh_OffByOne(file_meshes, entity) ==
    IF entity.mesh_id = 0 THEN [st |-> "None", val |-> <<>>]
    ELSE IF entity.mesh_id < Len(file_meshes)
         THEN [st |-> "Some", val |-> file_meshes[entity.mesh_id + 1]]
         ELSE [st |-> "None", val |-> <<>>]

\* EntityRef::mesh(): Option<&Mesh>
EntityRef_mesh(file_meshes, entity) ==
    IF entity.mesh_id = 0 THEN [st |-> "None", val |-> <<>>]
    ELSE IF entity.mesh_id - 1 < Len(file_meshes)
         THEN [st |-> "Some", val |-> file_meshes[(entity.mesh_id - 1) + 1]]
         ELSE [st |-> "None", val |-> <<>>]

----------------------------------------------------------------------------
(* The inputs: files written from a description (the ghost src), so that    *)
(* what a file holds is known without decoding it.                          *)

\* The most sections a file of the model holds
MaxSections == 3

\* The concatenation of the sequences of ss, by halves
RECURSIVE Flatten(_)
Flatten(ss) ==
    IF ss = <<>> THEN <<>>
    ELSE IF Len(ss) = 1 THEN ss[1]
    ELSE Flatten(Take(ss, Len(ss) \div 2)) \o Flatten(Drop(ss, Len(ss) \div 2))

le16(n) == <<n % 256, n \div 256>>
le32(w) == le16(w.lo) \o le16(w.hi)
EncVec(v) == Flatten([i \in 1..Len(v) |-> le32(v[i])])
EncVecs(vs) == Flatten([i \in 1..Len(vs) |-> EncVec(vs[i])])
EncString(name) == <<Len(name)>> \o name

EncLayer(l) == l.tag \o EncString(l.name) \o le16(l.np) \o EncVecs(l.data)

EncMesh(m) ==
    le16(m.n) \o EncVecs(m.positions)
    \o le16(m.t)
    \o Flatten([i \in 1..Len(m.idx) |-> IF m.wide THEN le16(m.idx[i]) ELSE <<m.idx[i]>>])
    \o <<Len(m.layers)>> \o Flatten([i \in 1..Len(m.layers) |-> EncLayer(m.layers[i])])

EncEntity(e) ==
    EncString(e.name) \o EncVec(e.position) \o EncVec(e.rotation) \o EncVec(e.scale)
    \o le16(e.mesh_id)

EncScene(sc) ==
    EncString(sc.name) \o le32(U32(Len(sc.entities)))
    \o Flatten([i \in 1..Len(sc.entities) |-> le32(sc.entities[i])])

EncBody(sec) ==
    IF sec.kind = "mesh" THEN EncMesh(sec.body)
    ELSE IF sec.kind = "entity" THEN EncEntity(sec.body)
    ELSE EncScene(sec.body)

\* A section's payload: the body, then pad bytes the decoder has no use for,
\* less the last cut bytes.
DropLast(s, n) == Take(s, Len(s) - n)

Payload(sec) == DropLast(EncBody(sec) \o [i \in 1..sec.pad |-> 170], sec.cut)

\* A section as written: the declared length is the payload's, plus over.
EncSection(sec, over) ==
    sec.tag \o le32(U32(Len(Payload(sec)) + over)) \o Payload(sec)

\* A file as written: the header, the sections (the last one declaring over
\* bytes too many), less the last chop bytes.
EncFile(f) ==
    DropLast(f.header
             \o Flatten([i \in 1..Len(f.sections) |->
                           EncSection(f.sections[i],
                                      IF i = Len(f.sections) THEN f.over ELSE 0)]),
             f.chop)

\* f32 bit patterns: 1.0 + k ulps-ish, and a negative one
F(k) == [hi |-> 16256, lo |-> k]
G(k) == [hi |-> 49024 + k, lo |-> 0]

Positions(n) == [i \in 1..n |-> <<F(i), F(256 * i), G(i)>>]
Colors(n) == [i \in 1..n |-> <<F(i), G(0), F(1), G(i)>>]

Layer(name, np) == [tag |-> TagMDTA, name |-> name, np |-> np, data |-> Colors(np)]

Mesh(n, idx, layers) ==
    [n |-> n, positions |-> Positions(n), t |-> Len(idx) \div 3, idx |-> idx,
     wide |-> n >= WideThreshold, layers |-> layers]

Entity(name, mesh_id) ==
    [name |-> name, position |-> <<F(1), F(2), F(3)>>,
     rotation |-> <<F(0), F(0), F(0), G(0)>>, scale |-> <<F(4), G(1), F(5)>>,
     mesh_id |-> mesh_id]

Scene(name, ids) == [name |-> name, entities |-> ids]

Sec(tag, kind, body, pad, cut) ==
    [tag |-> tag, kind |-> kind, body |-> body, pad |-> pad, cut |-> cut]

MeshSec(m) == Sec(TagMESH, "mesh", m, 0, 0)
EntySec(e) == Sec(TagENTY, "entity", e, 0, 0)
ScneSec(sc) == Sec(TagSCNE, "scene", sc, 0, 0)

NameA == <<65>>
NameE == <<69, 195, 169>>
TagJUNK == <<74, 85, 78, 75>>
U32Max == [hi |-> 65535, lo |-> 65535]

SectionMenu ==
    { MeshSec(Mesh(2, <<0, 1, 1>>, <<Layer(NameA, 2)>>)),
      MeshSec(Mesh(1, <<0, 5, 0>>, <<>>)),
      Sec(TagMESH, "mesh", Mesh(0, <<0, 0, 0>>, <<>>), 3, 0),
      MeshSec(Mesh(1, <<>>, <<Layer(NameA, 1), Layer(<<>>, 2)>>)),
      EntySec(Entity(NameA, 0)),
      EntySec(Entity(NameE, 1)),
      EntySec(Entity(<<>>, 3)),
      Sec(TagENTY, "entity", Entity(NameA, 1), 0, 1),
      ScneSec(Scene(NameA, <<U32(1), U32(2)>>)),
      ScneSec(Scene(<<>>, <<U32(2), U32(0)>>)),
      ScneSec(Scene(NameE, <<U32(3), U32Max>>)),
      Sec(TagJUNK, "entity", Entity(NameA, 0), 0, 0) }

GoodHeader == TagTOY \o <<SCENE_VERSION>>

BadHeaders ==
    { <<>>, <<84>>, <<84, 79>>, <<84, 79, 89>>, <<84, 79, 88, SCENE_VERSION>>,
      <<116, 111, 121, SCENE_VERSION>>, TagTOY \o <<SCENE_VERSION + 1>>,
      <<0, 79, 89, SCENE_VERSION>> }

SeqsUpTo(S, n) == UNION {[1..k -> S] : k \in 0..n}

File(h, ss, chop, over) == [header |-> h, sections |-> ss, chop |-> chop, over |-> over]

Files ==
    { File(GoodHeader, ss, 0, 0) : ss \in SeqsUpTo(SectionMenu, MaxSections) }
    \cup { File(GoodHeader, ss, 1, 0) : ss \in SeqsUpTo(SectionMenu, 1) }
    \cup { File(GoodHeader, ss, 0, 1) : ss \in SeqsUpTo(SectionMenu, 1) \ {<<>>} }
    \cup { File(h, ss, 0, 0) : h \in BadHeaders,
                               ss \in SeqsUpTo({EntySec(Entity(NameA, 0))}, 1) }

----------------------------------------------------------------------------
(* load, importer.rs 10-46, as a state machine                              *)

NoFrame == [op |-> "", before |-> <<>>, tag |-> <<>>, section |-> <<>>,
            st |-> "", rest |-> <<>>]
NoLocals == [num_vertices |-> 0, vertices |-> <<>>, indices |-> <<>>]
NoQuery == [op |-> "", arg |-> 0, build |-> "", st |-> "", val |-> <<>>, why |-> ""]

Init ==
    /\ src \in Files
    /\ data = EncFile(src)
    /\ buf = data
    /\ pc = "start"
    /\ err = ""
    /\ meshes = <<>>
    /\ entities = <<>>
    /\ scenes = <<>>
    /\ locals = NoLocals
    /\ frame = NoFrame
    /\ query = NoQuery

\* A failed call: the error is returned and read_all's locals are dropped.
Fail(e) ==
    /\ pc' = "failed"
    /\ err' = e
    /\ meshes' = <<>>
    /\ entities' = <<>>
    /\ scenes' = <<>>

AfterMagic(r) ==
    /\ buf' = r.buf
    /\ frame' = [NoFrame EXCEPT !.op = "read_magic", !.before = buf,
                                !.st = r.st, !.rest = r.buf]
    /\ IF r.st = "ok" THEN
           /\ pc' = "sections"
           /\ UNCHANGED <<err, meshes, entities, scenes>>
       ELSE IF r.st = "err" THEN Fail(r.err)
       ELSE /\ pc' = "panicked"
            /\ UNCHANGED <<err, meshes, entities, scenes>>

\* read_all, line 22: self.read_magic()?
ReadMagic ==
    /\ pc = "start"
    /\ AfterMagic(read_magic(buf))
    /\ UNCHANGED <<data, locals, src, query>>

AfterDispatch(s, d) ==
    /\ frame' = [op |-> "read_section", before |-> buf, tag |-> s.val.tag,
                 section |-> s.val.section, st |-> d.r.st, rest |-> d.r.buf]
    /\ IF IsOk(d.r) THEN
           /\ meshes' = d.meshes
           /\ entities' = d.entities
           /\ scenes' = d.scenes
           /\ UNCHANGED <<pc, err>>
       ELSE Fail(d.r.err)

AfterSection(s) ==
    /\ buf' = s.buf
    /\ IF ~IsOk(s) THEN
           /\ frame' = [NoFrame EXCEPT !.op = "read_section", !.before = buf,
                                       !.st = "err", !.rest = s.buf]
           /\ Fail(s.err)
       ELSE AfterDispatch(s, dispatch(s.val.tag, s.val.section,
                                      meshes, entities, scenes))

\* read_all, lines 28-39: one iteration of the loop over the sections
ReadSection ==
    /\ pc = "sections"
    /\ buf # <<>>
    /\ AfterSection(read_section(buf))
    /\ UNCHANGED <<data, locals, src, query>>

\* read_all, lines 41-45: the loop ends on an empty cursor, Ok(Project {..})
Finish ==
    /\ pc = "sections"
    /\ buf = <<>>
    /\ pc' = "done"
    /\ UNCHANGED <<data, buf, err, meshes, entities, scenes, locals, frame, src, query>>

SceneQuery(i, bld, r) ==
    [op |-> "SceneRef::entities", arg |-> i, build |-> bld,
     st |-> r.st, val |-> r.val, why |-> r.why]

\* A consumer drains SceneRef::entities() of the i-th scene of the Project.
SceneEntities ==
    /\ pc = "done"
    /\ \E i \in 1..Len(scenes), bld \in {"debug", "release"} :
         query' = SceneQuery(i, bld,
                             SceneRef_entities(entities, scenes[i].entities, bld, <<>>))
    /\ UNCHANGED <<data, buf, pc, err, meshes, entities, scenes, locals, frame, src>>

MeshQuery(i, r) ==
    [op |-> "EntityRef::mesh", arg |-> i, build |-> "",
     st |-> r.st, val |-> r.val, why |-> ""]

\* A consumer calls EntityRef::mesh() on the i-th entity of the Project.
EntityMesh ==
    /\ pc = "done"
    /\ \E i \in 1..Len(entities) :
         query' = MeshQuery(i, EntityRef_mesh(meshes, entities[i]))
    /\ UNCHANGED <<data, buf, pc, err, meshes, entities, scenes, locals, frame, src>>

Next == ReadMagic \/ ReadSection \/ Finish \/ SceneEntities \/ EntityMesh

Spec == Init /\ [][Next]_vars

----------------------------------------------------------------------------
(* The byte cursor on its own: any sequence of reads on a cursor            *)

\* The longest cursor of which every content over CursorBytes is tried
MaxCursorLen == 3

CursorBytes == {0, 1, 2, 65, 255}

\* A cursor long enough for every read to succeed
LongCursor ==
    TagMDTA \o <<2, 65, 66, 1, 255, 3, 0>> \o EncVec(<<F(1), G(2), F(3), U32Max>>)

CursorInputs ==
    SeqsUpTo(CursorBytes, MaxCursorLen)
    \cup { Take(LongCursor, n) : n \in 0..Len(LongCursor) }

InitCursor ==
    /\ data \in CursorInputs
    /\ buf = data
    /\ pc = "cursor"
    /\ err = ""
    /\ meshes = <<>>
    /\ entities = <<>>
    /\ scenes = <<>>
    /\ locals = NoLocals
    /\ frame = NoFrame
    /\ src = <<>>
    /\ query = NoQuery

\* The call `self.<op>()` with result r on the cursor
CursorCall(op, r) ==
    /\ buf' = r.buf
    /\ err' = r.err
    /\ frame' = [NoFrame EXCEPT !.op = op, !.before = buf, !.st = r.st, !.rest = r.buf]
    /\ UNCHANGED <<data, pc, meshes, entities, scenes, locals, src, query>>

CursorReadU8 ==
    /\ pc = "cursor"
    /\ CursorCall("read_u8", read_u8(buf))

CursorReadU16 ==
    /\ pc = "cursor"
    /\ CursorCall("read_u16", read_u16(buf))

CursorReadU32 ==
    /\ pc = "cursor"
    /\ CursorCall("read_u32", read_u32(buf))

CursorReadF32 ==
    /\ pc = "cursor"
    /\ CursorCall("read_f32", read_f32(buf))

CursorReadTag ==
    /\ pc = "cursor"
    /\ CursorCall("read_tag", read_tag(buf))

CursorExpectTag ==
    /\ pc = "cursor"
    /\ \E tag \in {TagMDTA, TagMESH} : CursorCall("expect_tag", expect_tag(buf, tag))

CursorReadString ==
    /\ pc = "cursor"
    /\ CursorCall("read_string", read_string(buf))

CursorReadVec3 ==
    /\ pc = "cursor"
    /\ CursorCall("read_vec3", read_vec3(buf))

CursorReadVec4 ==
    /\ pc = "cursor"
    /\ CursorCall("read_vec4", read_vec4(buf))

CursorReadQuat ==
    /\ pc = "cursor"
    /\ CursorCall("read_quat", read_quat(buf))


NextCursor ==
    \/ CursorReadU8
    \/ CursorReadU16
    \/ CursorReadU32
    \/ CursorReadF32
    \/ CursorReadTag
    \/ CursorExpectTag
    \/ CursorReadString
    \/ CursorReadVec3
    \/ CursorReadVec4
    \/ CursorReadQuat

CursorSpec == InitCursor /\ [][NextCursor]_vars

----------------------------------------------------------------------------
(* read_mesh on a section's cursor, part by part                            *)

\* The most triangles a mesh of the model declares
MaxTriangles == 2

MeshSizes ==
    {0, 1, WideThreshold - 2, WideThreshold - 1, WideThreshold, WideThreshold + 1}

\* Index values: any byte for a narrow list, values above 255 for a wide one
MeshIdx(n, t, seed) ==
    [i \in 1..(3 * t) |->
        IF n >= WideThreshold THEN ((97 * i + 31 * seed) % 256) + 250 * i
        ELSE (97 * i + 31 * seed) % 256]

MeshInputs ==
    { Sec(TagMESH, "mesh", Mesh(n, MeshIdx(n, t, seed), layers), 0, cut) :
        n \in MeshSizes, t \in 0..MaxTriangles, seed \in {0, 1},
        layers \in {<<>>}, cut \in {0, 1} }
    \cup
    { Sec(TagMESH, "mesh", Mesh(n, MeshIdx(n, t, 0), <<Layer(NameA, n)>>), 0, 0) :
        n \in MeshSizes, t \in 0..MaxTriangles }

InitMesh ==
    /\ src \in MeshInputs
    /\ data = Payload(src)
    /\ buf = data
    /\ pc = "mesh_vertices"
    /\ err = ""
    /\ meshes = <<>>
    /\ entities = <<>>
    /\ scenes = <<>>
    /\ locals = NoLocals
    /\ frame = NoFrame
    /\ query = NoQuery

MeshPart(op, r) ==
    /\ buf' = r.buf
    /\ err' = r.err
    /\ frame' = [NoFrame EXCEPT !.op = op, !.before = buf, !.st = r.st, !.rest = r.buf]
    /\ UNCHANGED <<data, entities, scenes, src, query>>

AfterVertices(r) ==
    /\ MeshPart("read_mesh_vertices", r)
    /\ IF IsOk(r)
       THEN /\ pc' = "mesh_indices"
            /\ locals' = [locals EXCEPT !.num_vertices = r.val.num_vertices,
                                        !.vertices = r.val.vertices]
       ELSE /\ pc' = "failed"
            /\ locals' = NoLocals
    /\ UNCHANGED meshes

\* read_mesh, lines 70-74
MeshVertices ==
    /\ pc = "mesh_vertices"
    /\ AfterVertices(read_mesh_vertices(buf))

AfterIndices(r) ==
    /\ MeshPart("read_mesh_indices", r)
    /\ IF IsOk(r)
       THEN /\ pc' = "mesh_colors"
            /\ locals' = [locals EXCEPT !.indices = r.val]
       ELSE /\ pc' = "failed"
            /\ locals' = NoLocals
    /\ UNCHANGED meshes

\* read_mesh, lines 76-95
MeshIndices ==
    /\ pc = "mesh_indices"
    /\ AfterIndices(read_mesh_indices(buf, locals.num_vertices))

AfterColors(r) ==
    /\ MeshPart("read_mesh_colors", r)
    /\ IF IsOk(r)
       THEN /\ pc' = "mesh_done"
            /\ meshes' = <<[positions |-> locals.vertices, indices |-> locals.indices,
                            color_data |-> r.val]>>
            /\ UNCHANGED locals
       ELSE /\ pc' = "failed"
            /\ locals' = NoLocals
            /\ UNCHANGED meshes

\* read_mesh, lines 97-121
MeshColors ==
    /\ pc = "mesh_colors"
    /\ AfterColors(read_mesh_colors(buf, locals.num_vertices))

NextMesh == MeshVertices \/ MeshIndices \/ MeshColors

MeshSpec == InitMesh /\ [][NextMesh]_vars

----------------------------------------------------------------------------
(* What a file holds, from its description                                  *)

KnownTags == {TagSCNE, TagMESH, TagENTY}

SecsWithTag(tag) == SelectSeq(src.sections, LAMBDA sc : sc.tag = tag)
MeshSecs == SecsWithTag(TagMESH)
EntySecs == SecsWithTag(TagENTY)
ScneSecs == SecsWithTag(TagSCNE)

\* The MeshData a mesh body describes
ExpectedMesh(m) ==
    [positions |-> m.positions,
     indices |-> [wide |-> m.wide, vals |-> m.idx],
     color_data |-> [i \in 1..Len(m.layers) |->
                        [name |-> m.layers[i].name, data |-> m.layers[i].data]]]

\* A section written whole, under a tag read_all knows, every color layer as
\* long as the vertex list
CleanSec(sc) ==
    /\ sc.tag \in KnownTags
    /\ sc.cut = 0
    /\ sc.kind = "mesh" => \A k \in 1..Len(sc.body.layers) : sc.body.layers[k].np = sc.body.n

\* A mesh section written whole whose k-th color layer declares a point count
\* other than the vertex count, the layers before it being as long as the
\* vertex list
DeclaresMismatch(sc) ==
    /\ sc.tag = TagMESH
    /\ sc.kind = "mesh"
    /\ sc.cut = 0
    /\ \E k \in 1..Len(sc.body.layers) : sc.body.layers[k].np # sc.body.n

WholeFile == src.header = GoodHeader /\ src.chop = 0 /\ src.over = 0

Clean == WholeFile /\ \A i \in 1..Len(src.sections) : CleanSec(src.sections[i])

IsSuffix(a, b) == Len(a) <= Len(b) /\ a = SubSeq(b, Len(b) - Len(a) + 1, Len(b))

HasMagic(d) == Len(d) >= 3 /\ SubSeq(d, 1, 3) = <<84, 79, 89>>

\* An entity id that is no 1-based index into a list of n entities
BadId(id, n) ==
    \/ (id.hi = 0 /\ id.lo = 0)
    \/ id.hi >= 32768
    \/ id.hi * 65536 + id.lo > n

----------------------------------------------------------------------------
(* The claims                                                               *)

\* C1, as stated: every read is all-or-nothing, a read that returns an error
\* leaves the cursor's remaining bytes exactly as they were.
C1_AllOrNothing == frame.st = "err" => buf = frame.before

PrimitiveReads == {"read_u8", "read_u16", "read_u32", "read_f32", "read_tag", "expect_tag"}
VectorReads == {"read_vec3", "read_vec4", "read_quat"}

ReadWidth(op, before) ==
    IF op = "read_u8" THEN 1
    ELSE IF op = "read_u16" THEN 2
    ELSE IF op \in {"read_u32", "read_f32", "read_tag", "expect_tag"} THEN 4
    ELSE IF op = "read_vec3" THEN 12
    ELSE IF op = "read_string" THEN 1 + before[1]
    ELSE 16

\* C1, amended: the cursor after a read is a suffix of the cursor before it; a
\* read that returns a value has consumed exactly its width; a failed
\* read_u8, read_u16, read_u32, read_f32, read_tag or expect_tag leaves the
\* cursor as it was; a failed read_string leaves it past the length byte
\* (too few bytes follow) or past the whole string (invalid UTF-8), unless the
\* length byte itself was missing; a failed read_vec3, read_vec4 or read_quat
\* leaves it past every whole float that was available.
C1_PrimitivesAllOrNothing ==
    frame.op # "" =>
        /\ IsSuffix(buf, frame.before)
        /\ frame.st = "ok" =>
               Len(frame.before) - Len(buf) = ReadWidth(frame.op, frame.before)
        /\ frame.st = "err" =>
               /\ frame.op \in PrimitiveReads => buf = frame.before
               /\ frame.op = "read_string" =>
                      IF frame.before = <<>> THEN buf = <<>>
                      ELSE IF err = "InvalidUtf8"
                           THEN buf = Drop(frame.before, 1 + frame.before[1])
                           ELSE buf = Drop(frame.before, 1)
               /\ frame.op \in VectorReads =>
                      buf = Drop(frame.before, 4 * (Len(frame.before) \div 4))

\* C1's case: a composite read failed after some of its parts were read
C1_Witness ==
    /\ frame.op \in VectorReads \cup {"read_string"}
    /\ frame.st = "err"
    /\ buf # frame.before

\* C2, as stated: a buffer of any length that does not start with "TOY" makes
\* load return BadMagic, with nothing read.
C2_BadMagicForAnyLength ==
    (pc # "start" /\ ~HasMagic(data)) =>
        (pc = "failed" /\ err = "BadMagic" /\ buf = data)

\* C3, as stated: SceneRef.entities() on a scene that holds an id of 0 or an
\* id above the entity count reports UnresolvedReference and does not panic.
C3_UnresolvedReference ==
    (/\ query.op = "SceneRef::entities"
     /\ \E k \in 1..Len(scenes[query.arg].entities) :
            BadId(scenes[query.arg].entities[k], Len(entities)))
    => (query.st = "err" /\ query.why = "UnresolvedReference")

DeclaredFits(before) ==
    /\ before[7] + 256 * before[8] < 32768
    /\ (before[7] + 256 * before[8]) * 65536 + before[5] + 256 * before[6]
           <= Len(before) - 8
DeclaredLen(before) ==
    (before[7] + 256 * before[8]) * 65536 + before[5] + 256 * before[6]

\* C5: read_section fails with InvalidSectionLength whenever the declared
\* length exceeds the bytes after the 8-byte header; otherwise the decoder is
\* handed exactly the next `length` bytes and the parent cursor continues at
\* the first byte after them, whatever the decoder left unread: the decoder's
\* cursor stays inside its section, and leftover bytes are no error.
C5_SectionFraming ==
    (frame.op = "read_section" /\ Len(frame.before) >= 8) =>
        IF ~DeclaredFits(frame.before)
        THEN pc = "failed" /\ err = "InvalidSectionLength" /\ frame.st = "err"
        ELSE /\ frame.tag = SubSeq(frame.before, 1, 4)
             /\ frame.section = SubSeq(frame.before, 9, 8 + DeclaredLen(frame.before))
             /\ buf = SubSeq(frame.before, 9 + DeclaredLen(frame.before),
                             Len(frame.before))
             /\ IsSuffix(frame.rest, frame.section)
             /\ frame.st = "ok" => (pc \in {"sections", "done"} /\ err = "")
             /\ err # "InvalidSectionLength"

\* C5's case: a decoder left bytes of its section unread and another section
\* follows
C5_Witness ==
    /\ frame.op = "read_section"
    /\ frame.st = "ok"
    /\ frame.rest # <<>>
    /\ buf # <<>>
    /\ pc = "sections"

\* C6, as stated: every Project a successful load returns has every mesh_id 0
\* or <= len(meshes) and every scene entity id in 1..len(entities).
C6_WellFormedReferences ==
    pc = "done" =>
        /\ \A i \in 1..Len(entities) : entities[i].mesh_id <= Len(meshes)
        /\ \A i \in 1..Len(scenes) : \A k \in 1..Len(scenes[i].entities) :
               ~BadId(scenes[i].entities[k], Len(entities))

\* C6, amended: load checks no cross-reference.  A successful load returns
\* every entity's mesh_id and every scene's entity ids exactly as the file
\* encodes them, in range or not, and a file that is otherwise well-formed
\* never fails to load because of them.
C6_ReferencesStoredAsEncoded ==
    /\ pc = "done" =>
           /\ Len(entities) = Len(EntySecs)
           /\ \A i \in 1..Len(entities) :
                  entities[i].mesh_id = EntySecs[i].body.mesh_id
           /\ Len(scenes) = Len(ScneSecs)
           /\ \A i \in 1..Len(scenes) :
                  scenes[i].entities = ScneSecs[i].body.entities
    /\ Clean => pc \notin {"failed", "panicked"}

\* C6's case: a returned Project with a mesh_id above the mesh count and a
\* scene holding an id that is no index into the entities
C6_Witness ==
    /\ pc = "done"
    /\ \E i \in 1..Len(entities) : entities[i].mesh_id > Len(meshes)
    /\ \E i \in 1..Len(scenes) : \E k \in 1..Len(scenes[i].entities) :
           BadId(scenes[i].entities[k], Len(entities))

\* C7, as stated: in every mesh of a returned Project the index list has
\* length 3 x T and every index is below the number of positions.
C7_IndicesInRange ==
    pc = "done" =>
        \A i \in 1..Len(meshes) :
            /\ Len(meshes[i].indices.vals) = 3 * MeshSecs[i].body.t
            /\ \A k \in 1..Len(meshes[i].indices.vals) :
                   meshes[i].indices.vals[k] < Len(meshes[i].positions)

\* C7, amended: in every mesh of a returned Project the index list has length
\* exactly 3 x (declared triangle count), hence a multiple of 3, and the
\* positions number the declared vertex count N; the index values are stored
\* as read (below 256 in the narrow variant, below 65536 in the wide one) and
\* are not checked against N.
C7_IndexCount ==
    pc = "done" =>
        /\ Len(meshes) = Len(MeshSecs)
        /\ \A i \in 1..Len(meshes) :
               /\ Len(meshes[i].indices.vals) = 3 * MeshSecs[i].body.t
               /\ Len(meshes[i].indices.vals) % 3 = 0
               /\ Len(meshes[i].positions) = MeshSecs[i].body.n
               /\ meshes[i].indices.vals = MeshSecs[i].body.idx
               /\ \A k \in 1..Len(meshes[i].indices.vals) :
                      meshes[i].indices.vals[k]
                          \in (IF meshes[i].indices.wide THEN 0..65535 ELSE 0..255)

\* C7's case: a returned Project holds a mesh with a triangle and an index
\* that is no position of it
C7_Witness ==
    /\ pc = "done"
    /\ \E i \in 1..Len(meshes) : \E k \in 1..Len(meshes[i].indices.vals) :
           meshes[i].indices.vals[k] >= Len(meshes[i].positions)

\* The point count a failed color layer declared: the two bytes the section's
\* cursor stopped after
StoppedAfterCount ==
    frame.section[Len(frame.section) - Len(frame.rest) - 1]
    + 256 * frame.section[Len(frame.section) - Len(frame.rest)]

C9_IndexWidth ==
    (frame.op = "read_mesh_indices" /\ frame.st = "ok") =>
        /\ locals.num_vertices = data[1] + 256 * data[2]
        /\ Len(locals.indices.vals) = 3 * (frame.before[1] + 256 * frame.before[2])
        /\ locals.num_vertices <= 255 =>
               /\ ~locals.indices.wide
               /\ Len(frame.before) - Len(buf) = 2 + Len(locals.indices.vals)
               /\ \A k \in 1..Len(locals.indices.vals) :
                      locals.indices.vals[k] = frame.before[2 + k]
        /\ locals.num_vertices >= 256 =>
               /\ locals.indices.wide
               /\ Len(frame.before) - Len(buf) = 2 + 2 * Len(locals.indices.vals)
               /\ \A k \in 1..Len(locals.indices.vals) :
                      locals.indices.vals[k]
                          = frame.before[2 * k + 1] + 256 * frame.before[2 * k + 2]

\* C9's case: the indices of a mesh of exactly 256 vertices and at least one
\* triangle have been read
C9_Witness ==
    /\ frame.op = "read_mesh_indices"
    /\ frame.st = "ok"
    /\ locals.num_vertices = 256
    /\ locals.indices.wide
    /\ Len(locals.indices.vals) >= 3

\* C10: a successful load accounts for every section of the file once and in
\* file order: meshes holds the decoding of the MESH sections in their order,
\* entities that of the ENTY sections, scenes that of the SCNE sections, the
\* three lengths sum to the number of sections, and no section carries a tag
\* other than SCNE, MESH and ENTY.
C10_SectionsInFileOrder ==
    pc = "done" =>
        /\ meshes = [i \in 1..Len(MeshSecs) |-> ExpectedMesh(MeshSecs[i].body)]
        /\ entities = [i \in 1..Len(EntySecs) |-> EntySecs[i].body]
        /\ scenes = [i \in 1..Len(ScneSecs) |-> ScneSecs[i].body]
        /\ Len(meshes) + Len(entities) + Len(scenes) = Len(src.sections)
        /\ \A i \in 1..Len(src.sections) : src.sections[i].tag \in KnownTags

\* C10's case: a returned Project of three sections, two of them entities
\* that differ
C10_Witness ==
    /\ pc = "done"
    /\ Len(src.sections) = 3
    /\ Len(entities) = 2
    /\ entities[1] # entities[2]
    /\ Len(meshes) = 1

====
